---- MODULE Spec2Model ----
(***************************************************************************)
(* Model of the mapchete NumPy output driver (mapchete_numpy/__init__.py): *)
(* OutputData (write, tiles_exist, add_to_stack, _write_tile, ...) and     *)
(* InputTile (read, is_empty, _read_numpy).                                *)
(*                                                                         *)
(* A slice is the pixel content of one destination tile, flattened to a    *)
(* sequence of NPix values; it stands for an array of NDim-1 dimensions.   *)
(* A stack is a sequence of slices (leading layer axis, NDim dimensions).  *)
(***************************************************************************)
EXTENDS Integers, Sequences, FiniteSets, TLC

NDim == 4        \* output_params["ndim"] of the test configuration
NPix == 2        \* pixels of one destination tile
MaxVal == 1      \* pixel values are 0..MaxVal
MaxWrites == 2   \* write calls that start workers
MaxInFlight == 2 \* worker processes alive at the same time

Values == 0..MaxVal
Pix == 1..NPix
Slices == [Pix -> Values]
NodataChoices == {0, 1}

Tiles == {1, 2}
ProcessTiles == {"p1", "p12"}

\* pyramid.intersecting(process_tile): the destination tiles of a process tile
intersecting(pt) == IF pt = "p1" THEN {1} ELSE {1, 2}

VARIABLES
    single_file,  \* OutputData.single_file
    nodata,       \* OutputData.nodata
    denied,       \* TRUE when the root path refuses every creation (EACCES)
    fs,           \* per tile: what get_path(tile) names on disk
    rowdir,       \* TRUE when <root>/<zoom>/<row> exists
    workers,      \* the mp.Process workers that are alive
    calls,        \* number of write calls that started workers
    reader,       \* the InputTile object the consumer holds
    ret,          \* outcome of the last call (or "none" after a background step)
    log,          \* history: per tile, the slices whose worker finished packing
    disturbed     \* history: per tile, a writer overlapped a writer or a delete

vars == <<single_file, nodata, denied, fs, rowdir, workers, calls, reader, ret,
          log, disturbed>>

----------------------------------------------------------------------------
(* Values on disk and in memory *)

Corrupt == [ok |-> FALSE, arr |-> <<>>]          \* a file bloscpack cannot unpack
Packed(a) == [ok |-> TRUE, arr |-> a]            \* bp.pack_ndarray_file(a, path)

Absent == [kind |-> "absent", files |-> <<>>]
FileOf(c) == [kind |-> "file", files |-> (0 :> c)]   \* <row>/<col>.np
DirOf(f) == [kind |-> "dir", files |-> f]            \* <row>/<col>/<i>.np

None == [kind |-> "none", arr |-> <<>>]              \* Python None
NdArray(a) == [kind |-> "ndarray", arr |-> a]        \* np.ndarray
Masked(a) == [kind |-> "masked", arr |-> a]          \* ma.masked_where(a == nodata, a)
MaskedNone == [kind |-> "masked_none", arr |-> <<>>] \* ma.masked_where(False, None)

NoRet == [op |-> "none", status |-> "ok", pt |-> "p1", masked |-> FALSE,
          fresh |-> FALSE, bool |-> FALSE, val |-> None,
          arg |-> [valid |-> FALSE, allnodata |-> FALSE]]

\* an InputTile: its tile, its _cache, and (history) whether read() has
\* returned on it and what it returned the first time
NewReader(t) == [tile |-> t, cached |-> FALSE, cache |-> None,
                 returned |-> FALSE, first |-> None]
NoReader == NewReader(0)

\* np.full(shape, value): one slice holding value everywhere
FullSlice(v) == [p \in Pix |-> v]

\* np.where(a == v, True, False).all() over a stack
AllEqual(a, v) == \A i \in 1..Len(a) : \A p \in Pix : a[i][p] = v

----------------------------------------------------------------------------
(* OutputData: pure parts *)

\* the nodata argument of add_to_stack when the caller passes none
NoneArg == -1

\* new_array.mask of add_to_stack's argument: a plain ndarray has no mask
\* ("none"), a masked array has the scalar nomask or a mask of its shape
NoMaskAttr == [kind |-> "none", m |-> [p \in Pix |-> FALSE]]
ScalarNoMask == [kind |-> "nomask", m |-> [p \in Pix |-> FALSE]]
FullMask(m) == [kind |-> "full", m |-> m]

\* OutputData.get_path, seen through os.path.exists
PathExists(f, t) == f[t].kind # "absent"

\* tiles_exist answering for any destination tile instead of all
TilesExistResult_Any(f, pt) == \E t \in intersecting(pt) : PathExists(f, t)

\* OutputData.tiles_exist
TilesExistResult(f, pt) == \A t \in intersecting(pt) : PathExists(f, t)

\* OutputData.empty: bands x tile shape filled with nodata, ndmin = ndim
empty(nd) == <<FullSlice(nd)>>

\* OutputData.verify_data, called with process_tile.data as its "tile":
\* it inspects tile.data, that is the .data attribute of the array
verify_data(d) ==
    IF d.kind = "list" THEN "AttributeError"
    ELSE IF d.kind = "ndarray" THEN "ValueError"
    ELSE IF d.ndim \in {NDim, NDim - 1} THEN "ok"
    ELSE "ValueError"

\* masked_data.filled() with fill value nodata
Filled(d, nd) ==
    [t \in DOMAIN d.px |->
        [p \in Pix |-> IF d.kind = "masked" /\ d.mask[p] THEN nd ELSE d.px[t][p]]]

\* OutputData.prepare_data
prepare_data(d, sf, nd) ==
    IF sf
    THEN [status |-> "ok", ndim |-> d.ndim, nlayers |-> d.nlayers,
          px |-> Filled(d, nd)]
    ELSE IF d.ndim = 4 /\ d.nlayers = 1
    THEN [status |-> "ok", ndim |-> 3, nlayers |-> 1, px |-> Filled(d, nd)]
    ELSE IF d.ndim = 3
    THEN [status |-> "ok", ndim |-> 3, nlayers |-> d.nlayers,
          px |-> Filled(d, nd)]
    ELSE [status |-> "RuntimeError", ndim |-> d.ndim, nlayers |-> d.nlayers,
          px |-> Filled(d, nd)]

\* write without its test for an empty array
WriteIsNoop_Never(q, nd) == FALSE

\* the test of write, line 48: every element of the prepared array is nodata
WriteIsNoop(q, nd) == \A t \in DOMAIN q.px : \A p \in Pix : q.px[t][p] = nd

\* raster.extract_from_tile: the part of the prepared array over tile t
extract_from_tile(q, t) == [i \in 1..q.nlayers |-> q.px[t]]

\* the test of _write_tile, lines 200-203
WriteTileIsNoop(arr, nd) == AllEqual(arr, nd)

\* InputTile._read_numpy on a single file
UnpackFile(c) == IF c.ok THEN NdArray(c.arr) ELSE None

\* the slices of a tile directory that unpack, for part_path in range(n)
RECURSIVE SlicesUpTo(_, _)
SlicesUpTo(files, n) ==
    IF n = 0 THEN <<>>
    ELSE LET i == n - 1
             rest == SlicesUpTo(files, i)
         IN IF i \in DOMAIN files /\ files[i].ok
            THEN Append(rest, files[i].arr[1])
            ELSE rest

\* InputTile._read_numpy
_read_numpy(e) ==
    IF e.kind = "dir"
    THEN LET slices == SlicesUpTo(e.files, Cardinality(DOMAIN e.files))
         IN IF slices = <<>>
            THEN [status |-> "ValueError", val |-> None]
            ELSE [status |-> "ok", val |-> NdArray(slices)]
    ELSE [status |-> "ok", val |-> UnpackFile(e.files[0])]

\* the body of InputTile.read when nothing is cached
ReadUncached(e, sf, masked) ==
    IF (sf /\ e.kind # "file") \/ (~sf /\ e.kind # "dir")
    THEN [status |-> "ok", val |-> None]
    ELSE LET r == _read_numpy(e)
         IN IF r.status # "ok" THEN r
            ELSE IF ~masked THEN r
            ELSE IF r.val.kind = "none"
            THEN [status |-> "ok", val |-> MaskedNone]
            ELSE [status |-> "ok", val |-> Masked(r.val.arr)]

\* read decoding the path on every call
CacheHit_Never(rd) == FALSE

\* InputTile.read, line 231: the cache already holds "data"
CacheHit(rd) == rd.cached

\* the tests of InputTile.is_empty on the value read() handed back: an array is
\* empty when every element is nodata; None and the masked wrapping of None
\* (what read() makes of a file that does not unpack) pass neither test
IsEmptyValue(v, nd) ==
    /\ v.kind \in {"ndarray", "masked"}
    /\ AllEqual(v.arr, nd)

\* add_to_stack, lines 161-164: the stored stack, or empty() when
\* open(tile).read(masked=False) did not return an array
StackRead(cur, conf_nodata) ==
    IF cur.kind = "ndarray" THEN cur.arr ELSE empty(conf_nodata)

\* add_to_stack putting the new slice below the stack it read
Prepend_Below(new_slice, stack) == stack \o <<new_slice>>

\* add_to_stack, line 171: np.concatenate((new_array[np.newaxis, :], stack))
Prepend(new_slice, stack) == <<new_slice>> \o stack

\* the gap-closing select always taking the stacked view
GapSelect_Stacked(masked, shifted, stacked) == stacked

\* add_to_stack, line 181: np.where(mask_stack, stack2, stack1), one element
GapSelect(masked, shifted, stacked) == IF masked THEN shifted ELSE stacked

\* OutputData.add_to_stack, given the stack that open(tile).read(masked=False)
\* returned (cur, possibly None)
add_to_stack(new_ndim, new_array, mask, cur, conf_nodata, nodata_arg, close_gaps) ==
    LET stack == StackRead(cur, conf_nodata)
        nd == IF nodata_arg = NoneArg \/ nodata_arg = 0 THEN 0 ELSE nodata_arg
        stack1 == Prepend(new_array[1], stack)
        stack2 == stack \o <<FullSlice(nd)>>
        new_stack == [i \in 1..Len(stack1) |->
                        [p \in Pix |-> GapSelect(mask.m[p], stack2[i][p],
                                                 stack1[i][p])]]
    IN  IF AllEqual(new_array, nd) THEN [ok |-> TRUE, arr |-> stack]
        ELSE IF new_ndim # NDim - 1 THEN [ok |-> FALSE, arr |-> <<>>]
        ELSE IF ~close_gaps THEN [ok |-> TRUE, arr |-> stack1]
        ELSE IF mask.kind = "none" THEN [ok |-> FALSE, arr |-> <<>>]
        ELSE IF mask.kind = "nomask" THEN [ok |-> TRUE, arr |-> stack1]
        ELSE IF \A i \in 1..Len(new_stack) : \A p \in Pix : new_stack[i][p] # nd
        THEN [ok |-> TRUE, arr |-> new_stack]
        ELSE IF AllEqual(<<new_stack[Len(new_stack)]>>, nd)
        THEN [ok |-> TRUE, arr |-> SubSeq(new_stack, 1, Len(new_stack) - 1)]
        ELSE [ok |-> TRUE, arr |-> new_stack]

----------------------------------------------------------------------------
(* Inputs of write *)

MaxLayers == 2   \* layers of an input array of NDim dimensions

Shapes == {<<NDim - 2, 1>>, <<NDim - 1, 1>>, <<NDim, 1>>, <<NDim, MaxLayers>>}

NoMask == [p \in Pix |-> FALSE]

\* the same slice over every destination tile of pt
Uniform(pt, v) == [t \in intersecting(pt) |-> FullSlice(v)]

\* process_tile.data: a masked array, a plain ndarray, or a list.  An array of
\* NDim dimensions holds the same slice in each of its layers.  Arrays of
\* NDim-1 dimensions take every content and every mask; the other shapes and
\* kinds take the uniform contents.
WriteInputs(pt) ==
    {[kind |-> "masked", ndim |-> NDim - 1, nlayers |-> 1, px |-> px, mask |-> m] :
        px \in [intersecting(pt) -> Slices], m \in [Pix -> BOOLEAN]}
    \cup
    {[kind |-> "masked", ndim |-> s[1], nlayers |-> s[2], px |-> Uniform(pt, v),
      mask |-> [p \in Pix |-> b]] :
        s \in Shapes, v \in Values, b \in BOOLEAN}
    \cup
    {[kind |-> "ndarray", ndim |-> s[1], nlayers |-> s[2], px |-> Uniform(pt, v),
      mask |-> NoMask] :
        s \in Shapes, v \in Values}
    \cup
    {[kind |-> "list", ndim |-> NDim - 1, nlayers |-> 1,
      px |-> Uniform(pt, MaxVal), mask |-> NoMask]}

\* the arrays written while tiles_exist is watched over two destination tiles:
\* uniform slices, unmasked or fully masked
TilesWriteInputs(pt) ==
    {[kind |-> "masked", ndim |-> NDim - 1, nlayers |-> 1, px |-> Uniform(pt, v),
      mask |-> [p \in Pix |-> b]] : v \in Values, b \in BOOLEAN}

\* the arrays written while a reader is watched: unmasked slices
ReaderWriteInputs(pt) ==
    {[kind |-> "masked", ndim |-> NDim - 1, nlayers |-> 1, px |-> px,
      mask |-> NoMask] : px \in [intersecting(pt) -> Slices]}

\* the arrays written while tiles_exist is polled: unmasked slices, each
\* destination tile covered by one value
PolledWriteInputs(pt) ==
    {[kind |-> "masked", ndim |-> NDim - 1, nlayers |-> 1, px |-> px,
      mask |-> NoMask] :
        px \in [intersecting(pt) -> {FullSlice(v) : v \in Values}]}

MaxMerges == 2   \* gap-closing merges into one tile

\* the slices merged with gap closing: one more value than Values, so that
\* two valid observations of a pixel can differ under either nodata
MergeSlices == [Pix -> 0..(MaxVal + 1)]

\* new_array of add_to_stack with close_gaps: masked arrays in the canonical
\* form (an element is masked exactly where it equals nodata), the mask kept
\* as a full array or, for a slice without masked element, as ma.nomask
MergeInputs(nd) ==
    {[arr |-> x, mask |-> FullMask([p \in Pix |-> x[p] = nd])] :
        x \in MergeSlices}
    \cup
    {[arr |-> x, mask |-> ScalarNoMask] :
        x \in {y \in MergeSlices : \A p \in Pix : y[p] # nd}}

\* the array handed to write is a plain or masked array of NDim or NDim-1
\* dimensions
InputIsArray(d) ==
    /\ d.kind \in {"ndarray", "masked"}
    /\ d.ndim \in {NDim, NDim - 1}

\* every pixel of the array handed to write is nodata or masked
InputAllNodata(d, nd) ==
    /\ d.kind \in {"ndarray", "masked"}
    /\ \A t \in DOMAIN d.px : \A p \in Pix :
          (d.kind = "masked" /\ d.mask[p]) \/ d.px[t][p] = nd

----------------------------------------------------------------------------
(* State machine *)

InitStore ==
    /\ single_file \in BOOLEAN
    /\ nodata \in NodataChoices
    /\ fs = [t \in Tiles |-> Absent]
    /\ rowdir = FALSE
    /\ workers = {}
    /\ calls = 0
    /\ reader = NoReader
    /\ ret = NoRet
    /\ log = [t \in Tiles |-> <<>>]
    /\ disturbed = [t \in Tiles |-> FALSE]

\* a store under a root path the process may write to
Init == InitStore /\ denied = FALSE

\* a store whose root path may be one the process is not allowed to write to
InitDenied == InitStore /\ denied \in BOOLEAN

Config == <<single_file, nodata, denied>>

WorkersOn(t) == {w \in workers : w.tile = t}

\* OutputData.write
write(pt, d) ==
    LET v == verify_data(d)
        q == prepare_data(d, single_file, nodata)
        r == [NoRet EXCEPT !.op = "write", !.pt = pt,
                           !.arg = [valid |-> InputIsArray(d),
                                    allnodata |-> InputAllNodata(d, nodata)]]
        started == {[id |-> calls + 1, tile |-> t, ndim |-> q.ndim,
                     arr |-> extract_from_tile(q, t), pc |-> "start",
                     out |-> <<>>, idx |-> 0, seen |-> <<>>] :
                        t \in intersecting(pt)}
    IN  /\ UNCHANGED <<Config, fs, rowdir, reader, log>>
        /\ IF v # "ok"
           THEN /\ ret' = [r EXCEPT !.status = v]
                /\ UNCHANGED <<workers, calls, disturbed>>
           ELSE IF q.status # "ok"
           THEN /\ ret' = [r EXCEPT !.status = q.status]
                /\ UNCHANGED <<workers, calls, disturbed>>
           ELSE IF WriteIsNoop(q, nodata)
           THEN /\ ret' = r
                /\ UNCHANGED <<workers, calls, disturbed>>
           ELSE /\ calls < MaxWrites
                /\ Cardinality(workers) + Cardinality(started) <= MaxInFlight
                /\ workers' = workers \cup started
                /\ calls' = calls + 1
                /\ disturbed' = [t \in Tiles |->
                      disturbed[t] \/ (t \in intersecting(pt) /\ WorkersOn(t) # {})]
                /\ ret' = r

\* OutputData.tiles_exist
tiles_exist(pt) ==
    /\ ret' = [NoRet EXCEPT !.op = "tiles_exist", !.pt = pt,
                            !.bool = TilesExistResult(fs, pt)]
    /\ UNCHANGED <<Config, fs, rowdir, workers, calls, reader, log, disturbed>>

\* _write_tile up to and including prepare_path; each os.makedirs of
\* prepare_path sits in a try with a bare except, so a refused creation is
\* passed over like an existing directory
WStart(w) ==
    /\ w \in workers /\ w.pc = "start"
    /\ ret' = NoRet
    /\ UNCHANGED <<Config, calls, reader, log, disturbed>>
    /\ IF WriteTileIsNoop(w.arr, nodata)
       THEN /\ workers' = workers \ {w}
            /\ UNCHANGED <<fs, rowdir>>
       ELSE /\ IF denied
               THEN UNCHANGED <<fs, rowdir>>
               ELSE /\ rowdir' = TRUE
                    /\ fs' = IF ~single_file /\ fs[w.tile].kind = "absent"
                             THEN [fs EXCEPT ![w.tile] = DirOf(<<>>)]
                             ELSE fs
            /\ workers' = (workers \ {w}) \cup
                 {[w EXCEPT !.pc = IF single_file THEN "merge" ELSE "listdir"]}

\* _write_tile line 208: add_to_stack(out_data, out_tile)
WMerge(w) ==
    /\ w \in workers /\ w.pc = "merge"
    /\ ret' = NoRet
    /\ UNCHANGED <<Config, fs, rowdir, calls, reader, log, disturbed>>
    /\ LET cur == ReadUncached(fs[w.tile], single_file, FALSE).val
           r == add_to_stack(w.ndim, w.arr, NoMaskAttr, cur, nodata, NoneArg, FALSE)
       IN IF r.ok
          THEN workers' = (workers \ {w}) \cup
                          {[w EXCEPT !.pc = "open", !.out = r.arr,
                                     !.seen = StackRead(cur, nodata)]}
          ELSE workers' = workers \ {w}

\* the next slice file always taking the name of the first one
NextIndex_Zero(files) == 0

\* _write_tile line 210: str(len(os.listdir(out_path)))
NextIndex(files) == Cardinality(DOMAIN files)

\* _write_tile lines 210-211: the name of the next slice file
WListdir(w) ==
    /\ w \in workers /\ w.pc = "listdir"
    /\ ret' = NoRet
    /\ UNCHANGED <<Config, fs, rowdir, calls, reader, log, disturbed>>
    /\ IF fs[w.tile].kind = "dir"
       THEN workers' = (workers \ {w}) \cup
               {[w EXCEPT !.pc = "open", !.out = w.arr,
                          !.idx = NextIndex(fs[w.tile].files)]}
       ELSE workers' = workers \ {w}

\* bp.pack_ndarray_file, first half: the file is opened for writing; where
\* the open fails the exception ends the worker process
WOpen(w) ==
    /\ w \in workers /\ w.pc = "open"
    /\ ret' = NoRet
    /\ UNCHANGED <<Config, rowdir, calls, reader, log, disturbed>>
    /\ IF denied \/ ~rowdir
       THEN /\ fs' = fs
            /\ workers' = workers \ {w}
       ELSE IF single_file
       THEN /\ fs' = [fs EXCEPT ![w.tile] = FileOf(Corrupt)]
            /\ workers' = (workers \ {w}) \cup {[w EXCEPT !.pc = "pack"]}
       ELSE IF fs[w.tile].kind = "dir"
       THEN /\ fs' = [fs EXCEPT ![w.tile] =
                        DirOf([i \in DOMAIN fs[w.tile].files \cup {w.idx} |->
                                 IF i = w.idx THEN Corrupt
                                 ELSE fs[w.tile].files[i]])]
            /\ workers' = (workers \ {w}) \cup {[w EXCEPT !.pc = "pack"]}
       ELSE /\ fs' = fs
            /\ workers' = workers \ {w}

\* bp.pack_ndarray_file, second half: the array is written and the file closed
WPack(w) ==
    /\ w \in workers /\ w.pc = "pack"
    /\ ret' = NoRet
    /\ UNCHANGED <<Config, rowdir, calls, reader, disturbed>>
    /\ workers' = workers \ {w}
    /\ log' = [log EXCEPT ![w.tile] = Append(@, w.arr)]
    /\ fs' = IF single_file
             THEN IF fs[w.tile].kind = "file"
                  THEN [fs EXCEPT ![w.tile] = FileOf(Packed(w.out))]
                  ELSE fs
             ELSE IF fs[w.tile].kind = "dir" /\ w.idx \in DOMAIN fs[w.tile].files
                  THEN [fs EXCEPT ![w.tile] =
                          DirOf([fs[w.tile].files EXCEPT ![w.idx] = Packed(w.out)])]
                  ELSE fs

\* os.remove / shutil.rmtree of a tile's path by the caller
Delete(t) ==
    /\ fs[t].kind # "absent"
    /\ fs' = [fs EXCEPT ![t] = Absent]
    /\ log' = [log EXCEPT ![t] = <<>>]
    /\ disturbed' = [disturbed EXCEPT ![t] = @ \/ WorkersOn(t) # {}]
    /\ ret' = NoRet
    /\ UNCHANGED <<Config, rowdir, workers, calls, reader>>

\* add_to_stack(new_array, tile, nodata=self.nodata, close_gaps=True) on
\* destination tile 1, the returned stack packed to the tile's file
GapMerge(d) ==
    /\ single_file
    /\ Len(log[1]) < MaxMerges
    /\ LET cur == ReadUncached(fs[1], single_file, FALSE).val
           r == add_to_stack(NDim - 1, <<d.arr>>, d.mask, cur, nodata, nodata, TRUE)
       IN  /\ r.ok
           /\ fs' = [fs EXCEPT ![1] = FileOf(Packed(r.arr))]
    /\ log' = [log EXCEPT ![1] = Append(@, <<d.arr>>)]
    /\ ret' = NoRet
    /\ UNCHANGED <<Config, rowdir, workers, calls, reader, disturbed>>

\* OutputData.open
open(t) ==
    /\ reader' = NewReader(t)
    /\ ret' = [NoRet EXCEPT !.op = "open"]
    /\ UNCHANGED <<Config, fs, rowdir, workers, calls, log, disturbed>>

\* InputTile.read on reader rd over the path content e: the outcome, the value
\* and the reader afterwards
ReadOn(rd, e, sf, masked) ==
    IF CacheHit(rd)
    THEN [status |-> "ok", val |-> rd.cache, fresh |-> FALSE,
          rd |-> [rd EXCEPT !.returned = TRUE,
                            !.first = IF rd.returned THEN @ ELSE rd.cache]]
    ELSE LET r == ReadUncached(e, sf, masked)
         IN IF r.status = "ok"
            THEN [status |-> "ok", val |-> r.val, fresh |-> TRUE,
                  rd |-> [rd EXCEPT !.cached = TRUE, !.cache = r.val,
                                    !.returned = TRUE,
                                    !.first = IF rd.returned THEN @ ELSE r.val]]
            ELSE [status |-> r.status, val |-> None, fresh |-> TRUE, rd |-> rd]

\* InputTile.is_empty on reader rd over the path content e
IsEmptyOn(rd, e, sf, nd) ==
    IF (sf /\ e.kind # "file") \/ (~sf /\ e.kind # "dir")
    THEN [status |-> "ok", bool |-> TRUE, fresh |-> FALSE, rd |-> rd]
    ELSE LET r == ReadOn(rd, e, sf, TRUE)
         IN [status |-> r.status, fresh |-> r.fresh, rd |-> r.rd,
             bool |-> r.status = "ok" /\ IsEmptyValue(r.val, nd)]

\* InputTile.read
read(masked) ==
    /\ reader.tile # 0
    /\ UNCHANGED <<Config, fs, rowdir, workers, calls, log, disturbed>>
    /\ LET r == ReadOn(reader, fs[reader.tile], single_file, masked)
       IN /\ reader' = r.rd
          /\ ret' = [NoRet EXCEPT !.op = "read", !.masked = masked,
                                  !.status = r.status, !.fresh = r.fresh,
                                  !.val = r.val]

\* InputTile.is_empty
is_empty ==
    /\ reader.tile # 0
    /\ UNCHANGED <<Config, fs, rowdir, workers, calls, log, disturbed>>
    /\ LET r == IsEmptyOn(reader, fs[reader.tile], single_file, nodata)
       IN /\ reader' = r.rd
          /\ ret' = [NoRet EXCEPT !.op = "is_empty", !.status = r.status,
                                  !.fresh = r.fresh, !.bool = r.bool]

\* InputTile.__exit__
__exit__ ==
    /\ reader.tile # 0
    /\ reader' = NoReader
    /\ ret' = [NoRet EXCEPT !.op = "close"]
    /\ UNCHANGED <<Config, fs, rowdir, workers, calls, log, disturbed>>

\* the output store over one destination tile, its workers and the caller
\* deleting the tile
Next ==
    \/ \E d \in WriteInputs("p1") : write("p1", d)
    \/ tiles_exist("p1")
    \/ \E w \in workers : WStart(w)
    \/ \E w \in workers : WMerge(w)
    \/ \E w \in workers : WListdir(w)
    \/ \E w \in workers : WOpen(w)
    \/ \E w \in workers : WPack(w)
    \/ Delete(1)

Spec == Init /\ [][Next]_vars

\* the output store over both process tiles and both destination tiles
NextTiles ==
    \/ \E pt \in ProcessTiles : \E d \in TilesWriteInputs(pt) : write(pt, d)
    \/ \E pt \in ProcessTiles : tiles_exist(pt)
    \/ \E w \in workers : WStart(w)
    \/ \E w \in workers : WMerge(w)
    \/ \E w \in workers : WListdir(w)
    \/ \E w \in workers : WOpen(w)
    \/ \E w \in workers : WPack(w)
    \/ \E t \in Tiles : Delete(t)

SpecTiles == Init /\ [][NextTiles]_vars

\* one consumer reading destination tile 1 while slices are written to it
NextReader ==
    \/ \E d \in ReaderWriteInputs("p1") : write("p1", d)
    \/ \E w \in workers : WStart(w)
    \/ \E w \in workers : WMerge(w)
    \/ \E w \in workers : WListdir(w)
    \/ \E w \in workers : WOpen(w)
    \/ \E w \in workers : WPack(w)
    \/ Delete(1)
    \/ open(1)
    \/ \E m \in BOOLEAN : read(m)
    \/ is_empty
    \/ __exit__

SpecReader == Init /\ [][NextReader]_vars

\* a step of one of the processes started at write, line 54
WorkerStep ==
    \E w \in workers :
        WStart(w) \/ WMerge(w) \/ WListdir(w) \/ WOpen(w) \/ WPack(w)

\* a caller that writes and polls tiles_exist while nothing deletes a tile
NextPolled ==
    \/ \E pt \in ProcessTiles : \E d \in PolledWriteInputs(pt) : write(pt, d)
    \/ \E pt \in ProcessTiles : tiles_exist(pt)
    \/ \E w \in workers : WStart(w)
    \/ \E w \in workers : WMerge(w)
    \/ \E w \in workers : WListdir(w)
    \/ \E w \in workers : WOpen(w)
    \/ \E w \in workers : WPack(w)

\* every started worker process keeps being scheduled until it exits
SpecPolled == Init /\ [][NextPolled]_vars /\ WF_vars(WorkerStep)

\* a sequence of gap-closing merges into destination tile 1
NextMerge == \E d \in MergeInputs(nodata) : GapMerge(d)

SpecMerge == Init /\ [][NextMerge]_vars

\* the output store of Spec under a root path that may refuse creations
SpecDenied == InitDenied /\ [][Next]_vars

----------------------------------------------------------------------------
(* Properties *)

\* no element of the stack equals nd
FullyValid(a, nd) == \A i \in 1..Len(a) : \A p \in Pix : a[i][p] # nd

\* no worker of tile t is alive and none ever overlapped another or a delete
Settled(t) == WorkersOn(t) = {} /\ ~disturbed[t]

\* what a newly opened reader of tile t gets from read() and is_empty()
FreshRead(t) == ReadOn(NewReader(t), fs[t], single_file, TRUE)
FreshIsEmpty(t) == IsEmptyOn(NewReader(t), fs[t], single_file, nodata)

\* the slices of log[t], newest first, as one stack
NewestFirst(t) == [i \in 1..Len(log[t]) |-> log[t][Len(log[t]) + 1 - i][1]]

\* C1: in single-file mode with nodata 0, once the worker of a write of a
\* fully valid array to a tile without a stored file has finished, tiles_exist
\* is true, a new reader's is_empty() is false and its read() returns exactly
\* the written values, no layer holding an invalid pixel.
C1_WriteThenRead ==
    (/\ single_file /\ nodata = 0
     /\ Settled(1)
     /\ Len(log[1]) = 1
     /\ FullyValid(log[1][1], nodata))
    => /\ TilesExistResult(fs, "p1")
       /\ FreshIsEmpty(1).status = "ok" /\ ~FreshIsEmpty(1).bool
       /\ FreshRead(1).status = "ok"
       /\ FreshRead(1).val = Masked(log[1][1])
       /\ FullyValid(FreshRead(1).val.arr, nodata)

\* C2: a write of an array whose every pixel is nodata (or masked) changes
\* nothing under the root path: no file or directory is created, changed or
\* removed, no worker is started, and tiles_exist answers as before.
C2_EmptyWriteIsNoop ==
    [][(ret'.op = "write" /\ ret'.arg.allnodata)
       => /\ fs' = fs /\ rowdir' = rowdir /\ workers' = workers
          /\ TilesExistResult(fs', "p1") = TilesExistResult(fs, "p1")]_vars

C2_Witness ==
    /\ ret.op = "write" /\ ret.status = "ok" /\ ret.arg.allnodata
    /\ fs[1].kind # "absent"
    /\ \E i \in DOMAIN fs[1].files : fs[1].files[i].ok

\* C3: from a tile without a stored stack, N >= 1 fully valid slices merged
\* one after another without gap closing give a stack of exactly N layers,
\* the most recent slice at layer index 0.
C3_StackGrowth ==
    (/\ single_file /\ nodata = 0
     /\ Settled(1)
     /\ Len(log[1]) >= 1
     /\ \A k \in 1..Len(log[1]) : FullyValid(log[1][k], nodata))
    => /\ fs[1].kind = "file"
       /\ fs[1].files[0].ok
       /\ Len(fs[1].files[0].arr) = Len(log[1])
       /\ fs[1].files[0].arr = NewestFirst(1)

\* C4: for a tile whose file is absent, a newly opened reader's is_empty() is
\* true and its read() returns the all-invalid masked array of the configured
\* empty shape.
C4_AbsentReadsEmpty ==
    /\ (ret.op = "is_empty" /\ reader.tile # 0 /\ fs[reader.tile].kind = "absent")
         => (ret.status = "ok" /\ ret.bool)
    /\ (ret.op = "read" /\ ret.masked /\ ret.fresh /\ reader.tile # 0
        /\ fs[reader.tile].kind = "absent")
         => (ret.status = "ok" /\ ret.val = Masked(empty(nodata)))

\* C5: write raises the validation error exactly when the data is neither a
\* plain nor a masked array or has neither NDim nor NDim-1 dimensions, and
\* when it raises it, nothing was created on disk and no worker was started.
C5_ValidationError ==
    [][ret'.op = "write"
       => /\ (ret'.status = "ValueError") <=> ~ret'.arg.valid
          /\ ret'.status = "ValueError"
               => (fs' = fs /\ rowdir' = rowdir /\ workers' = workers)]_vars

\* C6: once read() has returned on a reader, every later read() on it returns
\* the value of the first call, whatever happened to the tile's file since.
C6_ReadIsCached ==
    (ret.op = "read" /\ ret.status = "ok") => ret.val = reader.first

C6_Witness ==
    /\ ret.op = "read" /\ ret.status = "ok" /\ ~ret.fresh
    /\ ReadUncached(fs[reader.tile], single_file, ret.masked).val # ret.val

\* C7: for an existing tile, every read(masked) returns a masked array when
\* masked is true and the raw array when masked is false, whatever the earlier
\* calls on the reader asked for.
C7_MaskedArgHonoured ==
    (ret.op = "read" /\ ret.status = "ok" /\ ret.val.kind \in {"ndarray", "masked"})
    => (ret.masked <=> ret.val.kind = "masked")

\* no file of the path content e can be decoded
Undecodable(e) ==
    /\ e.kind # "absent"
    /\ \A i \in DOMAIN e.files : ~e.files[i].ok

\* C8: is_empty() never raises, and on a new reader of a tile none of whose
\* files can be decoded it returns true.
C8_IsEmptyNeverRaises ==
    (ret.op = "is_empty")
    => /\ ret.status = "ok"
       /\ (ret.fresh /\ Undecodable(fs[reader.tile])) => ret.bool

\* C9: tiles_exist(process_tile) is true exactly when the path of every
\* destination tile of the process tile exists at the call, whatever the
\* paths hold, and the call changes nothing.
C9_TilesExist ==
    [][ret'.op = "tiles_exist"
       => /\ ret'.bool <=> (\A t \in intersecting(ret'.pt) :
                               fs[t].kind \in {"file", "dir"})
          /\ UNCHANGED <<Config, fs, rowdir, workers, calls, reader, log>>]_vars

C9_Witness ==
    /\ ret.op = "tiles_exist" /\ ret.pt = "p12" /\ ret.bool
    /\ \E t \in Tiles : Undecodable(fs[t])
    /\ \E t \in Tiles : ~Undecodable(fs[t])

\* C10: after slice X and then slice Y (disjoint nodata patterns) were written
\* to one tile, each write finishing before the next, the top layer read back
\* shows per pixel Y's value where Y is valid, else X's value where X is
\* valid, else nodata.
C10_GapClosingWrite ==
    (/\ single_file /\ nodata = 0
     /\ Settled(1)
     /\ Len(log[1]) = 2
     /\ \A p \in Pix : log[1][1][1][p] # nodata \/ log[1][2][1][p] # nodata)
    => LET X == log[1][1][1]
           Y == log[1][2][1]
       IN /\ FreshRead(1).status = "ok"
          /\ FreshRead(1).val.kind = "masked"
          /\ \A p \in Pix :
               FreshRead(1).val.arr[1][p] =
                  IF Y[p] # nodata THEN Y[p]
                  ELSE IF X[p] # nodata THEN X[p] ELSE nodata

\* the slices held by a stack
Layers(a) == {a[i] : i \in 1..Len(a)}

C12_SequentialStack ==
    (/\ single_file
     /\ Settled(1)
     /\ log[1] # <<>>)
    => /\ fs[1].kind = "file" /\ fs[1].files[0].ok
       /\ Len(fs[1].files[0].arr) >= Len(log[1])
       /\ \A i \in 1..Len(log[1]) : fs[1].files[0].arr[i] = NewestFirst(1)[i]

\* C13: once write has accepted an array that is not entirely nodata for a
\* process tile, and its workers keep running, tiles_exist for that process
\* tile eventually becomes true.
C13_PollTerminates ==
    \A pt \in ProcessTiles :
        (ret.op = "write" /\ ret.status = "ok" /\ ret.pt = pt
            /\ ~ret.arg.allnodata)
        ~> TilesExistResult(fs, pt)

\* C14: when tiles_exist answers true for a process tile written once, no
\* worker of its destination tiles is still running and a reader opened at
\* that moment decodes a stack that contains the written slice.
C14_ExistsMeansWritten ==
    (/\ ret.op = "tiles_exist" /\ ret.bool
     /\ calls = 1 /\ ~disturbed[1])
    => \A t \in intersecting(ret.pt) :
          /\ WorkersOn(t) = {}
          /\ FreshRead(t).status = "ok"
          /\ FreshRead(t).val.kind = "masked"
          /\ \A k \in 1..Len(log[t]) : log[t][k][1] \in Layers(FreshRead(t).val.arr)

\* the slices of log[t], oldest first, as one stack
OldestFirst(t) == [i \in 1..Len(log[t]) |-> log[t][i][1]]

\* C15: in directory mode, while the writers of a tile never overlap, the
\* k-th write (from 0) is stored as the layer file k holding the written slice
\* and the earlier layer files stay as they were; between writes the directory
\* holds the files 0..n-1 and read() returns the slices oldest first.
C15_DirectoryLayers ==
    (/\ ~single_file
     /\ ~disturbed[1]
     /\ fs[1].kind = "dir")
    => /\ \A k \in 1..Len(log[1]) :
             /\ (k - 1) \in DOMAIN fs[1].files
             /\ fs[1].files[k - 1] = Packed(log[1][k])
       /\ (WorkersOn(1) = {} /\ log[1] # <<>>)
          => /\ DOMAIN fs[1].files = 0..(Len(log[1]) - 1)
             /\ FreshRead(1).status = "ok"
             /\ FreshRead(1).val = Masked(OldestFirst(1))

C15_Witness ==
    /\ ~single_file
    /\ Settled(1)
    /\ fs[1].kind = "dir"
    /\ Len(log[1]) = 2
    /\ log[1][1] # log[1][2]
    /\ FreshRead(1).val = Masked(OldestFirst(1))

\* C16: when a directory creation of a per-tile write is refused for a reason
\* other than the directory existing, the per-tile write stops there and the
\* caller of write is given the error.
C16_FailurePropagates ==
    [][\A w \in workers :
         (/\ denied
          /\ w.pc = "start" /\ ~WriteTileIsNoop(w.arr, nodata)
          /\ w \notin workers')
         => /\ \A v \in workers' : v.id # w.id \/ v.tile # w.tile
            /\ ret'.op = "write" /\ ret'.status # "ok"]_vars

\* the stack stored for destination tile 1
Stored == fs[1].files[0].arr

\* C17: after gap-closing merges of which at least one slice had a valid
\* pixel, the last layer of the stored stack is not entirely nodata.
C17_NoPaddingLayer ==
    (/\ fs[1].kind = "file"
     /\ \E k \in 1..Len(log[1]) : ~AllEqual(log[1][k], nodata))
    => ~AllEqual(<<Stored[Len(Stored)]>>, nodata)

\* the valid observations of pixel p among the merged slices, newest first
Observed(p) ==
    LET IsValid(v) == v # nodata
    IN  SelectSeq([i \in 1..Len(log[1]) |-> log[1][Len(log[1]) + 1 - i][1][p]],
                  IsValid)

\* C18: after gap-closing merges only, every pixel's column of the stored
\* stack is the pixel's valid observations, newest first, followed by nodata
\* only.
C18_NoGaps ==
    (fs[1].kind = "file")
    => \A p \in Pix :
          /\ Len(Observed(p)) <= Len(Stored)
          /\ \A i \in 1..Len(Stored) :
                Stored[i][p] = IF i <= Len(Observed(p)) THEN Observed(p)[i]
                               ELSE nodata

C18_Witness ==
    /\ fs[1].kind = "file"
    /\ Len(log[1]) = MaxMerges
    /\ \E p, q \in Pix :
          /\ Len(Observed(p)) = 2 /\ Observed(p)[1] # Observed(p)[2]
          /\ Len(Observed(q)) = 1
          /\ log[1][MaxMerges][1][q] = nodata

\* what read() on the open reader returns now
ReaderSees == ReadOn(reader, fs[reader.tile], single_file, TRUE)

\* C19: whenever is_empty() returns on an open reader, it returns true exactly
\* when read() on that reader returns None or data whose every element is
\* nodata.
C19_IsEmptyAgreesWithRead ==
    (ret.op = "is_empty" /\ ret.status = "ok")
    => (ret.bool <=>
          /\ ReaderSees.status = "ok"
          /\ \/ ReaderSees.val.kind = "none"
             \/ IsEmptyValue(ReaderSees.val, nodata))

\* C20: in single-file mode, for either nodata value, once the writers of a
\* tile have finished, a tile file that exists is not empty for a new reader,
\* and while writers never overlapped every written slice is one of its
\* layers.
C20_NoEmptyFile ==
    (/\ single_file
     /\ WorkersOn(1) = {}
     /\ fs[1].kind = "file")
    => /\ FreshIsEmpty(1).status = "ok"
       /\ ~FreshIsEmpty(1).bool
       /\ ~disturbed[1]
          => \A k \in 1..Len(log[1]) : log[1][k][1] \in Layers(fs[1].files[0].arr)

====
